---- MODULE Spec2Model ----
(***************************************************************************)
(* Model of the aug15 dashboard (python/): the corpus filter               *)
(* (utils/data_prep.py), the text-analysis pipeline                        *)
(* (utils/text_analysis.py) and the script run of app.py.                  *)
(*                                                                         *)
(* A pandas DataFrame is a record [exc, cols, rows]: cols is the sequence  *)
(* of column names, rows the sequence of rows (records keyed by column     *)
(* name).  A call that raises yields a frame whose exc names the           *)
(* exception.  A Python str is the sequence of its characters.             *)
(***************************************************************************)
EXTENDS Integers, Sequences, FiniteSets, TLC

VARIABLES
    corpus,             \* load_corpus(): the loaded corpus frame
    year_range,         \* filter argument / slider value <<lo, hi>>
    selected_pms,       \* filter argument / multiselect value (a set)
    selected_parties,   \* filter argument / multiselect value (a set)
    total_speeches,     \* get_current_n's total_speeches argument
    chosen_word,        \* count_specific_word's word argument
    corpus_filtered,    \* app.py: corpus_filtered
    corpus_refiltered,  \* filter_corpus applied to corpus_filtered
    count_msg,          \* result of get_current_n
    corpus_tidy,        \* app.py: corpus_tidy
    corpus_nonstop,     \* app.py: corpus_nonstop
    corpus_tf_idf,      \* app.py: corpus_tf_idf
    corpus_sentiment,   \* app.py: corpus_sentiment
    corpus_net,         \* app.py: corpus_net
    corpus_word,        \* app.py: corpus_word
    plot_type,          \* selectbox "Plot Type"
    max_words,          \* number_input, key 'max_words'
    facet_select,       \* selectbox, key 'facet_select'
    session_keys,       \* the widget and Reset keys present in st.session_state
    calls,              \* the functions the last script run invoked, in order
    shown               \* what the last script run displayed

\* the state of the sidebar that the functions of utils/ do not use
ui == <<plot_type, max_words, facet_select, session_keys, calls, shown>>

vars == <<corpus, year_range, selected_pms, selected_parties, total_speeches,
          chosen_word, corpus_filtered, corpus_refiltered, count_msg, corpus_tidy,
          corpus_nonstop, corpus_tf_idf, corpus_sentiment, corpus_net,
          corpus_word, ui>>

(***************************************************************************)
(* Bounds of the model.                                                    *)
(***************************************************************************)
MaxRows == 2

(***************************************************************************)
(* Frames and exceptions.                                                  *)
(***************************************************************************)
Range(s) == {s[i] : i \in 1..Len(s)}

Frame(cols, rows) == [exc |-> "ok", cols |-> cols, rows |-> rows]

Raised(e) == [exc |-> e, cols |-> <<>>, rows |-> <<>>]

Unset == [exc |-> "unset", cols |-> <<>>, rows |-> <<>>]

IsOk(df) == df.exc = "ok"

IsRaised(df) == df.exc \notin {"ok", "unset"}

HasCols(df, cs) == cs \subseteq Range(df.cols)

\* df[[c1, ..., cn]] on one row
Project(row, cols) == [c \in Range(cols) |-> row[c]]

\* the elements of the finite set S in the order of their ranks 0, 1, ...
RankedSeq(S, rank) ==
    [k \in 1..Cardinality(S) |-> CHOOSE x \in S : rank[x] = k - 1]

\* the elements of a finite set of integers in ascending order
Ascending(S) == RankedSeq(S, [x \in S |-> Cardinality({y \in S : y < x})])

\* the concatenation seqs[1] \o seqs[2] \o ... of a sequence of sequences
ConcatAt(seqs, at) ==
    [n \in 1..Len(at) |-> seqs[at[n][1]][at[n][2]]]

Concat(seqs) ==
    LET pairs == UNION {{<<i, k>> : k \in 1..Len(seqs[i])} : i \in 1..Len(seqs)}
    IN  ConcatAt(seqs, RankedSeq(pairs, [p \in pairs |->
            Cardinality({q \in pairs :
                \/ q[1] < p[1]
                \/ (q[1] = p[1] /\ q[2] < p[2])})]))

\* df[mask]: the rows whose mask entry is true, in their order
BoolIndex(rows, mask) ==
    Concat([i \in 1..Len(rows) |-> IF mask[i] THEN <<rows[i]>> ELSE <<>>])

(***************************************************************************)
(* Characters and strings.                                                 *)
(***************************************************************************)
UpperCase == <<"A","B","C","D","E","F","G","H","I","J","K","L","M",
               "N","O","P","Q","R","S","T","U","V","W","X","Y","Z">>

LowerCase == <<"a","b","c","d","e","f","g","h","i","j","k","l","m",
               "n","o","p","q","r","s","t","u","v","w","x","y","z">>

Digits == <<"0","1","2","3","4","5","6","7","8","9">>

\* code-point order of the characters of the class \w
CharOrder == Digits \o UpperCase \o <<"_">> \o LowerCase

WordChars == Range(CharOrder)

\* the regular-expression class \w
IsWordChar(c) == c \in WordChars

ToLower == [c \in Range(UpperCase) |->
               LowerCase[CHOOSE i \in 1..Len(UpperCase) : UpperCase[i] = c]]

\* str.lower() on one character
LowerChar(c) == IF c \in DOMAIN ToLower THEN ToLower[c] ELSE c

\* str.lower()
Lower(s) == [i \in 1..Len(s) |-> LowerChar(s[i])]

\* the missing value of a text cell (pd.isna)
NaN == <<"NaN">>

isna(v) == v = NaN

\* end of the greedy run \w+ that starts at i
RunEnd(s, i) ==
    CHOOSE j \in i..Len(s) :
        /\ \A k \in i..j : IsWordChar(s[k])
        /\ (j = Len(s) \/ ~IsWordChar(s[j + 1]))

\* re.findall(r'\b\w{minlen,}\b', s) scanning from position i
RECURSIVE findall(_, _, _)
findall(s, i, minlen) ==
    IF i > Len(s) THEN <<>>
    ELSE IF /\ IsWordChar(s[i])
            /\ (i = 1 \/ ~IsWordChar(s[i - 1]))
            /\ RunEnd(s, i) - i + 1 >= minlen
         THEN <<SubSeq(s, i, RunEnd(s, i))>>
              \o findall(s, RunEnd(s, i) + 1, minlen)
         ELSE findall(s, i + 1, minlen)

(***************************************************************************)
(* utils/data_prep.py                                                      *)
(***************************************************************************)
CorpusCols == <<"year", "pm", "party", "title", "footnote", "source", "url", "text">>

\* a projection that drops the leader and the party
FilteredCols_year_text == <<"year", "text">>

FilteredCols == <<"year", "pm", "party", "text">>

\* filter_corpus without the selection of columns
filter_corpus_all_columns(df, yr, pms, parties) ==
    IF ~HasCols(df, {"year", "pm", "party"}) THEN Raised("KeyError")
    ELSE Frame(df.cols,
               BoolIndex(df.rows, [i \in 1..Len(df.rows) |->
                                      /\ df.rows[i].year >= yr[1]
                                      /\ df.rows[i].year <= yr[2]
                                      /\ df.rows[i].pm \in pms
                                      /\ df.rows[i].party \in parties]))

\* filter_corpus with an exclusive upper bound on the year
filter_corpus_exclusive(df, yr, pms, parties) ==
    IF ~HasCols(df, Range(FilteredCols)) THEN Raised("KeyError")
    ELSE LET mask == [i \in 1..Len(df.rows) |->
                         /\ df.rows[i].year >= yr[1]
                         /\ df.rows[i].year < yr[2]
                         /\ df.rows[i].pm \in pms
                         /\ df.rows[i].party \in parties]
             filtered == BoolIndex(df.rows, mask)
         IN  Frame(FilteredCols,
                   [i \in 1..Len(filtered) |-> Project(filtered[i], FilteredCols)])

filter_corpus(df, yr, pms, parties) ==
    IF ~HasCols(df, {"year", "pm", "party"}) THEN Raised("KeyError")
    ELSE LET mask == [i \in 1..Len(df.rows) |->
                         /\ df.rows[i].year >= yr[1]
                         /\ df.rows[i].year <= yr[2]
                         /\ df.rows[i].pm \in pms
                         /\ df.rows[i].party \in parties]
             filtered == BoolIndex(df.rows, mask)
         IN  IF ~HasCols(df, Range(FilteredCols)) THEN Raised("KeyError")
             ELSE Frame(FilteredCols,
                        [i \in 1..Len(filtered) |-> Project(filtered[i], FilteredCols)])

DefaultTotal == 77

\* get_current_n without the branch for n = total
get_current_n_always_of(df, total) ==
    ToString(Len(df.rows)) \o " of " \o ToString(total) \o " speeches included."

get_current_n(df, total) ==
    LET n == Len(df.rows)
    IN  IF n = total
        THEN ToString(total) \o " speeches included."
        ELSE ToString(n) \o " of " \o ToString(total) \o " speeches included."

(***************************************************************************)
(* utils/text_analysis.py                                                  *)
(***************************************************************************)
TidyCols == <<"year", "pm", "party", "word">>

\* the rows of one speech when the text is not lowercased
TokensOfRow_as_written(row) ==
    IF isna(row.text) THEN <<>>
    ELSE LET words == findall(row.text, 1, 1)
         IN  [k \in 1..Len(words) |->
                [year |-> row.year, pm |-> row.pm, party |-> row.party,
                 word |-> words[k]]]

\* the rows one speech contributes to the token list
TokensOfRow(row) ==
    IF isna(row.text) THEN <<>>
    ELSE LET words == findall(Lower(row.text), 1, 1)
         IN  [k \in 1..Len(words) |->
                [year |-> row.year, pm |-> row.pm, party |-> row.party,
                 word |-> words[k]]]

TokenRows(rows) == Concat([i \in 1..Len(rows) |-> TokensOfRow(rows[i])])

\* pd.DataFrame(rows) of a list of dicts: no rows, no columns
tokenize_text(df) ==
    IF df.rows # <<>> /\ ~HasCols(df, Range(FilteredCols)) THEN Raised("KeyError")
    ELSE LET rows == TokenRows(df.rows)
         IN  IF rows = <<>> THEN Frame(<<>>, <<>>) ELSE Frame(TidyCols, rows)

(***************************************************************************)
(* Ordering of cell values (pandas sorts group keys).                      *)
(***************************************************************************)
\* the strings of the pm, party and sentiment columns in code-point order
StrOrder == <<"BJP", "Gandhi", "INC", "Modi", "Nehru", "negative", "positive">>

StrRank(s) == CHOOSE i \in 1..Len(StrOrder) : StrOrder[i] = s

CharRank(c) == CHOOSE i \in 1..Len(CharOrder) : CharOrder[i] = c

\* a < b for two words (strings of \w characters)
WordLess(a, b) ==
    \E i \in 1..Len(b) :
        /\ \A j \in 1..(i - 1) : j <= Len(a) /\ a[j] = b[j]
        /\ (i > Len(a) \/ CharRank(a[i]) < CharRank(b[i]))

ValLess(col, a, b) ==
    IF col = "year" THEN a < b
    ELSE IF col = "word" THEN WordLess(a, b)
    ELSE StrRank(a) < StrRank(b)

\* r1 < r2 as tuples of the key columns
KeyLess(keys, r1, r2) ==
    \E i \in 1..Len(keys) :
        /\ \A j \in 1..(i - 1) : r1[keys[j]] = r2[keys[j]]
        /\ ValLess(keys[i], r1[keys[i]], r2[keys[i]])

\* the distinct key tuples of rows, sorted
SortedKeys(rows, keys) ==
    LET ks == {Project(rows[i], keys) : i \in 1..Len(rows)}
    IN  RankedSeq(ks, [g \in ks |-> Cardinality({h \in ks : KeyLess(keys, h, g)})])

\* rows.groupby(keys).size().reset_index(name=name)
GroupSize(rows, keys, name) ==
    LET sk == SortedKeys(rows, keys)
    IN  [k \in 1..Len(sk) |->
            sk[k] @@ (name :> Cardinality({i \in 1..Len(rows) :
                                              Project(rows[i], keys) = sk[k]}))]

\* drop_duplicates(): the first occurrence of every row
DropDuplicates(rows) ==
    BoolIndex(rows, [i \in 1..Len(rows) |-> \A j \in 1..(i - 1) : rows[j] # rows[i]])

\* the missing value of a numeric cell after a left merge
NaNNum == -1

\* left.merge(right, on=keys, how='left') where right adds the column col
\* the rows of an inner join: a left row without a match is dropped
Matches_inner(l, right, keys, col) ==
    LET m == SelectSeq(right, LAMBDA r : Project(r, keys) = Project(l, keys))
    IN  [k \in 1..Len(m) |-> l @@ (col :> m[k][col])]

Matches(l, right, keys, col) ==
    LET m == SelectSeq(right, LAMBDA r : Project(r, keys) = Project(l, keys))
    IN  IF m = <<>> THEN <<l @@ (col :> NaNNum)>>
        ELSE [k \in 1..Len(m) |-> l @@ (col :> m[k][col])]

MergeLeft(left, right, keys, col) ==
    Concat([i \in 1..Len(left) |-> Matches(left[i], right, keys, col)])

\* rows[col] = rows[col].fillna(0)
FillNa(rows, col) ==
    [i \in 1..Len(rows) |->
        [rows[i] EXCEPT ![col] = IF @ = NaNNum THEN 0 ELSE @]]

\* sort_values(col) on an integer column; equal keys keep their order
Reorder(rows, pos) ==
    [k \in 1..Len(rows) |-> rows[CHOOSE i \in 1..Len(rows) : pos[i] = k]]

\* the rows left in the order of the merge
SortValues_left_as_merged(rows, col, ascending) == rows

SortValues(rows, col, ascending) ==
    LET n == Len(rows)
        before(j, i) == IF ascending THEN rows[j][col] < rows[i][col]
                        ELSE rows[j][col] > rows[i][col]
    IN  Reorder(rows, [i \in 1..n |->
                  1 + Cardinality({j \in 1..n :
                        before(j, i) \/ (rows[j][col] = rows[i][col] /\ j < i)})])

(***************************************************************************)
(* Lexicons (NLTK resources, loaded by name).                              *)
(***************************************************************************)
\* stopwords.words('english'), the members the model's texts use
stop_words == {<<"a">>, <<"i">>, <<"i","s">>, <<"t","h","e">>, <<"a","n","d">>}

\* opinion_lexicon.positive()
positive_words == {<<"j","o","y">>, <<"f","r","e","e","d","o","m">>,
                   <<"e","n","v","i","o","u","s">>}

\* opinion_lexicon.negative()
negative_words == {<<"b","a","d">>, <<"e","n","v","i","o","u","s">>}

\* remove_stopwords without the negation of the mask
remove_stopwords_unnegated(df_tidy) ==
    IF ~HasCols(df_tidy, {"word"}) THEN Raised("KeyError")
    ELSE Frame(df_tidy.cols,
               BoolIndex(df_tidy.rows,
                         [i \in 1..Len(df_tidy.rows) |->
                             df_tidy.rows[i].word \in stop_words]))

remove_stopwords(df_tidy) ==
    IF ~HasCols(df_tidy, {"word"}) THEN Raised("KeyError")
    ELSE Frame(df_tidy.cols,
               BoolIndex(df_tidy.rows,
                         [i \in 1..Len(df_tidy.rows) |->
                             ~(df_tidy.rows[i].word \in stop_words)]))

\* calculate_sentiment_words testing the negative lexicon first
calculate_sentiment_words_negative_first(df_nonstop) ==
    IF ~HasCols(df_nonstop, {"word"}) THEN Raised("KeyError")
    ELSE LET df == BoolIndex(df_nonstop.rows,
                       [i \in 1..Len(df_nonstop.rows) |->
                           \/ df_nonstop.rows[i].word \in positive_words
                           \/ df_nonstop.rows[i].word \in negative_words])
         IN  Frame(df_nonstop.cols \o <<"sentiment">>,
                   [i \in 1..Len(df) |->
                       df[i] @@ ("sentiment" :>
                           IF df[i].word \in negative_words THEN "negative"
                           ELSE "positive")])

calculate_sentiment_words(df_nonstop) ==
    IF ~HasCols(df_nonstop, {"word"}) THEN Raised("KeyError")
    ELSE LET df == BoolIndex(df_nonstop.rows,
                       [i \in 1..Len(df_nonstop.rows) |->
                           \/ df_nonstop.rows[i].word \in positive_words
                           \/ df_nonstop.rows[i].word \in negative_words])
         IN  Frame(df_nonstop.cols \o <<"sentiment">>,
                   [i \in 1..Len(df) |->
                       df[i] @@ ("sentiment" :>
                           IF df[i].word \in positive_words THEN "positive"
                           ELSE "negative")])

GroupCols == <<"year", "pm", "party">>

\* pivot_table(index=GroupCols, columns='sentiment', values='count', fill_value=0)
PivotSentiment(sentiment_counts) ==
    LET present == {sentiment_counts[i].sentiment : i \in 1..Len(sentiment_counts)}
        index == SortedKeys(sentiment_counts, GroupCols)
        cell(g, s) ==
            LET m == SelectSeq(sentiment_counts,
                         LAMBDA r : Project(r, GroupCols) = g /\ r.sentiment = s)
            IN  IF m = <<>> THEN 0 ELSE m[1].count
    IN  Frame(GroupCols \o SelectSeq(<<"negative", "positive">>, LAMBDA s : s \in present),
              [k \in 1..Len(index) |-> index[k] @@ [s \in present |-> cell(index[k], s)]])

calculate_net_sentiment(df_bing) ==
    IF ~HasCols(df_bing, Range(GroupCols) \cup {"sentiment"}) THEN Raised("KeyError")
    ELSE LET sentiment_counts ==
                 GroupSize(df_bing.rows, GroupCols \o <<"sentiment">>, "count")
             pivoted == PivotSentiment(sentiment_counts)
         IN  IF ~HasCols(pivoted, {"positive", "negative"}) THEN Raised("KeyError")
             ELSE Frame(pivoted.cols \o <<"sentiment">>,
                        [i \in 1..Len(pivoted.rows) |->
                            pivoted.rows[i] @@
                            ("sentiment" :> pivoted.rows[i].positive
                                            - pivoted.rows[i].negative)])

MissingYears == {1962, 1995}

\* count_specific_word comparing the tokens with the word as typed
count_specific_word_as_typed(df_tidy, word) ==
    LET word_lower == word
    IN  IF ~HasCols(df_tidy, {"word"}) THEN Raised("KeyError")
        ELSE IF ~HasCols(df_tidy, Range(GroupCols)) THEN Raised("KeyError")
        ELSE LET rows == df_tidy.rows
                 word_df == BoolIndex(rows, [i \in 1..Len(rows) |->
                                               rows[i].word = word_lower])
                 counts == GroupSize(word_df, GroupCols, "n")
                 kept == BoolIndex(rows, [i \in 1..Len(rows) |->
                                            rows[i].year \notin MissingYears])
                 all_years == DropDuplicates([i \in 1..Len(kept) |->
                                                Project(kept[i], GroupCols)])
                 result == FillNa(MergeLeft(all_years, counts, GroupCols, "n"), "n")
             IN  Frame(GroupCols \o <<"n">>, SortValues(result, "year", TRUE))

count_specific_word(df_tidy, word) ==
    LET word_lower == Lower(word)
    IN  IF ~HasCols(df_tidy, {"word"}) THEN Raised("KeyError")
        ELSE IF ~HasCols(df_tidy, Range(GroupCols)) THEN Raised("KeyError")
        ELSE LET rows == df_tidy.rows
                 word_df == BoolIndex(rows, [i \in 1..Len(rows) |->
                                               rows[i].word = word_lower])
                 counts == GroupSize(word_df, GroupCols, "n")
                 kept == BoolIndex(rows, [i \in 1..Len(rows) |->
                                            rows[i].year \notin MissingYears])
                 all_years == DropDuplicates([i \in 1..Len(kept) |->
                                                Project(kept[i], GroupCols)])
                 result == FillNa(MergeLeft(all_years, counts, GroupCols, "n"), "n")
             IN  Frame(GroupCols \o <<"n">>, SortValues(result, "year", TRUE))

(***************************************************************************)
(* TfidfVectorizer() with its defaults: lowercase=True,                    *)
(* token_pattern=r"(?u)\b\w\w+\b", smooth_idf=True, norm='l2'.  Scores     *)
(* are fixed-point: idf in tenths, the normalised score in hundredths.     *)
(***************************************************************************)
\* ' '.join(words)
RECURSIVE Join(_)
Join(words) ==
    IF words = <<>> THEN <<>>
    ELSE IF Len(words) = 1 THEN words[1]
    ELSE words[1] \o <<" ">> \o Join(Tail(words))

RECURSIVE SumSeq(_)
SumSeq(s) == IF s = <<>> THEN 0 ELSE Head(s) + SumSeq(Tail(s))

\* round(10 * ln(k)) for k = 1..80
LnDeci == <<0, 7, 11, 14, 16, 18, 19, 21, 22, 23, 24, 25, 26, 26, 27, 28,
            28, 29, 29, 30, 30, 31, 31, 32, 32, 33, 33, 33, 34, 34, 34, 35,
            35, 35, 36, 36, 36, 36, 37, 37, 37, 37, 38, 38, 38, 38, 39, 39,
            39, 39, 39, 40, 40, 40, 40, 40, 40, 41, 41, 41, 41, 41, 41, 42,
            42, 42, 42, 42, 42, 42, 43, 43, 43, 43, 43, 43, 43, 44, 44, 44>>

\* idf = ln((1 + n_docs) / (1 + df)) + 1, in tenths
Idf(n_docs, docfreq) == LnDeci[1 + n_docs] - LnDeci[1 + docfreq] + 10

\* floor(sqrt(n)) for n <= 10000
Isqrt(n) == CHOOSE r \in 0..100 : r * r <= n /\ (n < (r + 1) * (r + 1) \/ r = 100)

\* the analyzer of the vectorizer on one document
Analyze(doc) == findall(Lower(doc), 1, 2)

\* words sorted by code point: get_feature_names_out()
SortedWords(ws) ==
    RankedSeq(ws, [w \in ws |-> Cardinality({v \in ws : WordLess(v, w)})])

\* term frequency of w in an analyzed document
Tf(tokens, w) == Cardinality({p \in 1..Len(tokens) : tokens[p] = w})

\* number of analyzed documents that contain w
DocFreq(analyzed, w) ==
    Cardinality({k \in 1..Len(analyzed) : w \in Range(analyzed[k])})

\* tf * idf of w in document k, in tenths
Raw(analyzed, k, w) ==
    Tf(analyzed[k], w) * Idf(Len(analyzed), DocFreq(analyzed, w))

\* the l2-normalised row of document k, in hundredths
NormalisedRow(raw) ==
    LET norm2 == SumSeq([j \in 1..Len(raw) |-> raw[j] * raw[j]])
    IN  [j \in 1..Len(raw) |->
            IF norm2 = 0 THEN 0 ELSE Isqrt((raw[j] * raw[j] * 10000) \div norm2)]

TfidfMatrix(analyzed, features) ==
    [k \in 1..Len(analyzed) |->
        NormalisedRow([j \in 1..Len(features) |-> Raw(analyzed, k, features[j])])]

Fit(analyzed, vocabulary) ==
    IF vocabulary = {}
    THEN [exc |-> "ValueError", features |-> <<>>, matrix |-> <<>>]
    ELSE [exc |-> "ok", features |-> SortedWords(vocabulary),
          matrix |-> TfidfMatrix(analyzed, SortedWords(vocabulary))]

\* fit_transform(texts): [exc, features, matrix]; the matrix holds one row
\* per document and one column per feature
FitTransform(texts) ==
    LET analyzed == [k \in 1..Len(texts) |-> Analyze(texts[k])]
    IN  Fit(analyzed, UNION {Range(analyzed[k]) : k \in 1..Len(analyzed)})

\* the rows appended to tfidf_scores for document idx
ScoresOfDoc(year, features, scores) ==
    LET idxs == SelectSeq([j \in 1..Len(scores) |-> j], LAMBDA j : scores[j] > 0)
    IN  [k \in 1..Len(idxs) |->
            [year |-> year, word |-> features[idxs[k]], tf_idf |-> scores[idxs[k]]]]

TfidfScores(years, features, matrix) ==
    Concat([idx \in 1..Len(years) |-> ScoresOfDoc(years[idx], features, matrix[idx])])

calculate_tf_idf(df_tidy) ==
    IF ~HasCols(df_tidy, Range(TidyCols)) THEN Raised("KeyError")
    ELSE LET rows == df_tidy.rows
             word_counts == GroupSize(rows, TidyCols, "n")
             years == Ascending({rows[i].year : i \in 1..Len(rows)})
             year_texts ==
                 [k \in 1..Len(years) |->
                    LET of_year == SelectSeq(rows, LAMBDA r : r.year = years[k])
                    IN  Join([p \in 1..Len(of_year) |-> of_year[p].word])]
             fitted == FitTransform(year_texts)
             tfidf_scores == TfidfScores(years, fitted.features, fitted.matrix)
         IN  IF fitted.exc # "ok" THEN Raised(fitted.exc)
             ELSE IF tfidf_scores = <<>> THEN Raised("KeyError")
             ELSE Frame(TidyCols \o <<"n", "tf_idf">>,
                        SortValues(FillNa(MergeLeft(word_counts, tfidf_scores,
                                                    <<"year", "word">>, "tf_idf"),
                                          "tf_idf"),
                                   "tf_idf", FALSE))

(***************************************************************************)
(* Inputs: the corpus frames the functions are applied to.                 *)
(***************************************************************************)
Years == {1961, 1962, 1995}

\* <<pm, party>> of the speeches
Leaders == {<<"Gandhi", "INC">>, <<"Modi", "BJP">>, <<"Nehru", "INC">>}

Pms == {l[1] : l \in Leaders}

Parties == {l[2] : l \in Leaders}

\* ""
TextEmpty == <<>>

\* "A!"
TextA == <<"A", "!">>

\* "Joy, a joy"
TextJoy == <<"J","o","y",","," ","a"," ","j","o","y">>

\* "The bad, bad Freedom"
TextBad == <<"T","h","e"," ","b","a","d",","," ","b","a","d"," ",
             "F","r","e","e","d","o","m">>

Texts == {NaN, TextEmpty, TextA, TextJoy, TextBad}

\* "freedom", "Joy", "free"
WordFreedom == <<"f","r","e","e","d","o","m">>

WordChoices == {WordFreedom, <<"J","o","y">>, <<"f","r","e","e">>}

Speech(year, pm, party, text) ==
    [year |-> year, pm |-> pm, party |-> party, title |-> "title",
     footnote |-> "", source |-> "source", url |-> "url", text |-> text]

Speeches == {Speech(y, l[1], l[2], t) : y \in Years, l \in Leaders, t \in Texts}

\* corpora of at most MaxRows speeches, one speech a year, in chronological
\* order (oldest or newest first)
Corpora ==
    {Frame(CorpusCols, rows) :
        rows \in {r \in UNION {[1..n -> Speeches] : n \in 0..MaxRows} :
                     \/ \A i, j \in 1..Len(r) : i < j => r[i].year < r[j].year
                     \/ \A i, j \in 1..Len(r) : i < j => r[i].year > r[j].year}}

\* the dataset of data/corpus.csv: 79 rows, 1947 to 2025, one a year; the
\* rows of 1962 and 1995 have no text
DatasetRows == 79

FirstYear == 1947

Dataset ==
    Frame(CorpusCols,
          [i \in 1..DatasetRows |->
              LET year == FirstYear + i - 1
              IN  Speech(year,
                         IF year < 1964 THEN "Nehru" ELSE IF year < 2014 THEN "Gandhi" ELSE "Modi",
                         IF year < 2014 THEN "INC" ELSE "BJP",
                         IF year \in MissingYears THEN NaN
                         ELSE IF year % 2 = 0 THEN TextJoy ELSE TextBad)])

\* "Hello, world!"
TextHello == <<"H","e","l","l","o",","," ","w","o","r","l","d","!">>

\* "Envious world, FREEDOM"
TextEnvious == <<"E","n","v","i","o","u","s"," ","w","o","r","l","d",","," ",
                 "F","R","E","E","D","O","M">>

\* corpora like those of tests/: one speech, and two speeches of years
\* with data, the newest first
Samples ==
    {Frame(CorpusCols, <<Speech(FirstYear, "Nehru", "INC", TextHello)>>),
     Frame(CorpusCols, <<Speech(FirstYear + DatasetRows - 1, "Modi", "BJP", TextEnvious),
                         Speech(FirstYear, "Nehru", "INC", TextBad)>>)}

\* slider values: the whole range of the dataset, and the single year 1962
YearRanges == {<<FirstYear, FirstYear + DatasetRows - 1>>, <<1962, 1962>>}

PmChoices == {{}, {"Modi", "Nehru"}, Pms}

PartyChoices == {{}, {"INC"}, Parties}

TotalChoices == {MaxRows, DefaultTotal}

(***************************************************************************)
(* SpecFn: the functions of utils/ applied to bounded inputs.              *)
(***************************************************************************)
InitFn ==
    /\ corpus \in Corpora \cup Samples \cup {Dataset}
    /\ year_range = <<FirstYear, FirstYear + DatasetRows - 1>>
    /\ selected_pms = Pms
    /\ selected_parties = Parties
    /\ total_speeches = DefaultTotal
    /\ chosen_word = WordFreedom
    /\ corpus_filtered = Unset
    /\ corpus_refiltered = Unset
    /\ count_msg = ""
    /\ corpus_tidy = Unset
    /\ corpus_nonstop = Unset
    /\ corpus_tf_idf = Unset
    /\ corpus_sentiment = Unset
    /\ corpus_net = Unset
    /\ corpus_word = Unset
    /\ plot_type = "Speech Length"
    /\ max_words = 12
    /\ facet_select = "None"
    /\ session_keys = {}
    /\ calls = <<>>
    /\ shown = "nothing"

\* the filter, and the filter applied to its result with the same arguments
Fn_filter_corpus(yr, pms, parties) ==
    /\ corpus_filtered = Unset
    /\ corpus_tidy = Unset
    /\ year_range' = yr
    /\ selected_pms' = pms
    /\ selected_parties' = parties
    /\ corpus_filtered' = filter_corpus(corpus, yr, pms, parties)
    /\ corpus_refiltered' = filter_corpus(corpus_filtered', yr, pms, parties)
    /\ UNCHANGED <<ui, corpus, total_speeches, chosen_word, count_msg, corpus_tidy,
                   corpus_nonstop, corpus_tf_idf, corpus_sentiment, corpus_net,
                   corpus_word>>

Fn_get_current_n(total) ==
    /\ IsOk(corpus_filtered)
    /\ count_msg = ""
    /\ total_speeches' = total
    /\ count_msg' = get_current_n(corpus_filtered, total)
    /\ UNCHANGED <<ui, corpus_refiltered, corpus, year_range, selected_pms, selected_parties,
                   chosen_word, corpus_filtered, corpus_tidy, corpus_nonstop,
                   corpus_tf_idf, corpus_sentiment, corpus_net, corpus_word>>

\* the pipeline is applied to the corpora of at most MaxRows speeches
Fn_tokenize_text ==
    /\ corpus_filtered = Unset
    /\ corpus_tidy = Unset
    /\ Len(corpus.rows) <= MaxRows
    /\ corpus_tidy' = tokenize_text(corpus)
    /\ UNCHANGED <<ui, corpus_refiltered, corpus, year_range, selected_pms, selected_parties,
                   total_speeches, chosen_word, corpus_filtered, count_msg,
                   corpus_nonstop, corpus_tf_idf, corpus_sentiment, corpus_net,
                   corpus_word>>

TidyFresh ==
    /\ IsOk(corpus_tidy)
    /\ corpus_nonstop = Unset
    /\ corpus_tf_idf = Unset
    /\ corpus_word = Unset

Fn_remove_stopwords ==
    /\ TidyFresh
    /\ corpus_nonstop' = remove_stopwords(corpus_tidy)
    /\ UNCHANGED <<ui, corpus_refiltered, corpus, year_range, selected_pms, selected_parties,
                   total_speeches, chosen_word, corpus_filtered, count_msg,
                   corpus_tidy, corpus_tf_idf, corpus_sentiment, corpus_net,
                   corpus_word>>

Fn_calculate_tf_idf ==
    /\ TidyFresh
    /\ corpus_tf_idf' = calculate_tf_idf(corpus_tidy)
    /\ UNCHANGED <<ui, corpus_refiltered, corpus, year_range, selected_pms, selected_parties,
                   total_speeches, chosen_word, corpus_filtered, count_msg,
                   corpus_tidy, corpus_nonstop, corpus_sentiment, corpus_net,
                   corpus_word>>

Fn_calculate_sentiment_words ==
    /\ IsOk(corpus_nonstop)
    /\ corpus_sentiment = Unset
    /\ corpus_sentiment' = calculate_sentiment_words(corpus_nonstop)
    /\ UNCHANGED <<ui, corpus_refiltered, corpus, year_range, selected_pms, selected_parties,
                   total_speeches, chosen_word, corpus_filtered, count_msg,
                   corpus_tidy, corpus_nonstop, corpus_tf_idf, corpus_net,
                   corpus_word>>

Fn_calculate_net_sentiment ==
    /\ IsOk(corpus_sentiment)
    /\ corpus_net = Unset
    /\ corpus_net' = calculate_net_sentiment(corpus_sentiment)
    /\ UNCHANGED <<ui, corpus_refiltered, corpus, year_range, selected_pms, selected_parties,
                   total_speeches, chosen_word, corpus_filtered, count_msg,
                   corpus_tidy, corpus_nonstop, corpus_tf_idf, corpus_sentiment,
                   corpus_word>>

Fn_count_specific_word(word) ==
    /\ TidyFresh
    /\ chosen_word' = word
    /\ corpus_word' = count_specific_word(corpus_tidy, word)
    /\ UNCHANGED <<ui, corpus_refiltered, corpus, year_range, selected_pms, selected_parties,
                   total_speeches, corpus_filtered, count_msg, corpus_tidy,
                   corpus_nonstop, corpus_tf_idf, corpus_sentiment, corpus_net>>

NextFn ==
    \/ \E yr \in YearRanges, pms \in PmChoices, parties \in PartyChoices :
           Fn_filter_corpus(yr, pms, parties)
    \/ \E total \in TotalChoices : Fn_get_current_n(total)
    \/ Fn_tokenize_text
    \/ Fn_remove_stopwords
    \/ Fn_calculate_tf_idf
    \/ Fn_calculate_sentiment_words
    \/ Fn_calculate_net_sentiment
    \/ \E word \in WordChoices : Fn_count_specific_word(word)

SpecFn == InitFn /\ [][NextFn]_vars

(***************************************************************************)
(* utils/plotting.py.  A plot function reads columns of its frame and      *)
(* hands them to plotly; the model keeps the columns it needs and the      *)
(* column it adds to its argument.                                         *)
(***************************************************************************)
Figure(title) == Frame(<<"figure">>, <<[figure |-> title]>>)

Plot(df, needs, title) ==
    IF HasCols(df, needs) THEN Figure(title) ELSE Raised("KeyError")

plot_speech_length(df) == Plot(df, Range(GroupCols), "Total words per speech")

\* the column name of a choice of the "Facet Variable" selectbox
facet_map(choice) ==
    CASE choice = "None" -> "none"
      [] choice = "Year" -> "year"
      [] choice = "Prime Minister" -> "pm"
      [] choice = "Party" -> "party"

plot_freq_words(df, facet_var, words) ==
    Plot(df, IF facet_var = "none" THEN {"word"} ELSE {facet_var, "word"},
         "Most frequent words among included speeches")

plot_tf_idf(df, words) ==
    Plot(df, {"year", "tf_idf", "word"}, "Most 'important' words according to TF-IDF")

plot_sentiment_words(df, facet_var, words) ==
    Plot(df, IF facet_var = "none" THEN {"word", "sentiment"}
             ELSE {facet_var, "word", "sentiment"},
         "Most frequent positive and negative words")

plot_net_sentiment(df) ==
    Plot(df, {"year", "party", "positive", "negative", "sentiment"},
         "Difference in Counts of Positive and Negative Words")

plot_specific_word_trend(df, word) ==
    Plot(df, {"year", "party", "n"}, "Frequency of the term among speeches")

\* df['hover_text'] = df.apply(...): the plot functions of the net
\* sentiment and of the word trend add a column to the frame they are given
WithHoverText(df, texts) ==
    Frame(df.cols \o <<"hover_text">>,
          [i \in 1..Len(df.rows) |-> df.rows[i] @@ ("hover_text" :> texts[i])])

NetHover(rows) ==
    [i \in 1..Len(rows) |->
        ToString(rows[i].year) \o ": " \o ToString(rows[i].positive) \o " - "
        \o ToString(rows[i].negative) \o " = " \o ToString(rows[i].sentiment)]

WordHover(rows) ==
    [i \in 1..Len(rows) |-> ToString(rows[i].year) \o ": " \o ToString(rows[i].n)]

(***************************************************************************)
(* app.py: one run of the script.                                          *)
(***************************************************************************)
PlotTypes == {"Speech Length", "Most Frequent Words", "Most Important Words",
              "+/- Sentiment Words", "Net Sentiment", "Specific Word Trend"}

\* the plot types that show "Number of Words to Include"
WordCapPlots == {"Most Frequent Words", "Most Important Words", "+/- Sentiment Words"}

\* the plot types that show "Facet Variable"
FacetPlots == {"Most Frequent Words", "+/- Sentiment Words"}

default_max_words == 12

default_word == WordFreedom

\* the locals of a script run before the main content area
NoRun ==
    [corpus_filtered |-> Unset, count_msg |-> "", corpus_tidy |-> Unset,
     corpus_nonstop |-> Unset, corpus_tf_idf |-> Unset,
     corpus_sentiment |-> Unset, corpus_net |-> Unset, corpus_word |-> Unset,
     fig |-> Unset, calls |-> <<>>, raised |-> FALSE]

\* the locals of a run that loaded the corpus df
Loaded(df) == [corpus |-> df] @@ NoRun

\* the locals after the call `name` returned or raised `value`
Returned(r, name, out, value) ==
    [r EXCEPT !.calls = Append(@, name), ![out] = value, !.raised = IsRaised(value)]

\* out = name(...): the call is made unless an earlier one raised
Call(r, name, out, value) ==
    IF r.raised THEN r ELSE Returned(r, name, out, value)

\* the frame `in` as its plot function leaves it
Mutated(r, in, df) ==
    IF r.raised THEN r ELSE [r EXCEPT ![in] = df]

Tokenized(r) ==
    Call(r, "tokenize_text", "corpus_tidy", tokenize_text(r.corpus_filtered))

StopwordsRemoved(r) ==
    Call(r, "remove_stopwords", "corpus_nonstop", remove_stopwords(r.corpus_tidy))

SentimentLabeled(r) ==
    Call(r, "calculate_sentiment_words", "corpus_sentiment",
         calculate_sentiment_words(r.corpus_nonstop))

TfIdfOf(r, in) ==
    Call(r, "calculate_tf_idf", "corpus_tf_idf", calculate_tf_idf(r[in]))

NetCalculated(r) ==
    Call(r, "calculate_net_sentiment", "corpus_net",
         calculate_net_sentiment(r.corpus_sentiment))

WordCounted(r, word) ==
    Call(r, "count_specific_word", "corpus_word",
         count_specific_word(r.corpus_tidy, word))

SpeechLengthPlotted(r) ==
    Call(r, "plot_speech_length", "fig", plot_speech_length(r.corpus_tidy))

FreqWordsPlotted(r, facet_var, words) ==
    Call(r, "plot_freq_words", "fig", plot_freq_words(r.corpus_nonstop, facet_var, words))

TfIdfPlotted(r, words) ==
    Call(r, "plot_tf_idf", "fig", plot_tf_idf(r.corpus_tf_idf, words))

SentimentWordsPlotted(r, facet_var, words) ==
    Call(r, "plot_sentiment_words", "fig",
         plot_sentiment_words(r.corpus_sentiment, facet_var, words))

NetSentimentPlotted(r) ==
    Mutated(Call(r, "plot_net_sentiment", "fig", plot_net_sentiment(r.corpus_net)),
            "corpus_net", WithHoverText(r.corpus_net, NetHover(r.corpus_net.rows)))

WordTrendPlotted(r, word) ==
    Mutated(Call(r, "plot_specific_word_trend", "fig",
                 plot_specific_word_trend(r.corpus_word, word)),
            "corpus_word", WithHoverText(r.corpus_word, WordHover(r.corpus_word.rows)))

SpeechLength(r) == SpeechLengthPlotted(Tokenized(r))

MostFrequentWords(r, facet_var, words) ==
    FreqWordsPlotted(StopwordsRemoved(Tokenized(r)), facet_var, words)

\* Most Important Words with the stopwords removed before the TF-IDF
MostImportantWords_nonstop(r, words) ==
    TfIdfPlotted(TfIdfOf(StopwordsRemoved(Tokenized(r)), "corpus_nonstop"), words)

MostImportantWords(r, words) ==
    TfIdfPlotted(TfIdfOf(Tokenized(r), "corpus_tidy"), words)

SentimentWords(r, facet_var, words) ==
    SentimentWordsPlotted(SentimentLabeled(StopwordsRemoved(Tokenized(r))),
                          facet_var, words)

NetSentiment(r) ==
    NetSentimentPlotted(NetCalculated(SentimentLabeled(StopwordsRemoved(Tokenized(r)))))

SpecificWordTrend(r, word) == WordTrendPlotted(WordCounted(Tokenized(r), word), word)

\* the if/elif chain on plot_type
Dispatch(r, pt, facet_var, words, word) ==
    CASE pt = "Speech Length" -> SpeechLength(r)
      [] pt = "Most Frequent Words" -> MostFrequentWords(r, facet_var, words)
      [] pt = "Most Important Words" -> MostImportantWords(r, words)
      [] pt = "+/- Sentiment Words" -> SentimentWords(r, facet_var, words)
      [] pt = "Net Sentiment" -> NetSentiment(r)
      [] pt = "Specific Word Trend" -> SpecificWordTrend(r, word)

\* count_msg = get_current_n(corpus_filtered)
Counted(r) ==
    IF r.raised THEN r
    ELSE [r EXCEPT !.calls = Append(@, "get_current_n"),
                   !.count_msg = get_current_n(r.corpus_filtered, DefaultTotal)]

\* a filter that drops the rows from the frame it is given
Filtered_in_place(df, yr, pms, parties) ==
    Counted(Call(Loaded(filter_corpus_all_columns(df, yr, pms, parties)),
                 "filter_corpus", "corpus_filtered",
                 filter_corpus(df, yr, pms, parties)))

\* the filter and the inclusion count that precede the dispatch
Filtered(df, yr, pms, parties) ==
    Counted(Call(Loaded(df), "filter_corpus", "corpus_filtered",
                 filter_corpus(df, yr, pms, parties)))

\* the main content area with only the leaders checked
MainContent_pms_only(df, yr, pms, parties, pt, facet_var, words, word) ==
    IF pms # {}
    THEN Dispatch(Filtered(df, yr, pms, parties), pt, facet_var, words, word)
    ELSE Loaded(df)

\* the main content area: the locals of the run
MainContent(df, yr, pms, parties, pt, facet_var, words, word) ==
    IF pms # {} /\ parties # {}
    THEN Dispatch(Filtered(df, yr, pms, parties), pt, facet_var, words, word)
    ELSE Loaded(df)

(***************************************************************************)
(* Spec: the session of app.py.  Every interaction with the sidebar ends   *)
(* in one run of the script on the new widget values.                      *)
(***************************************************************************)
\* the corpus of the session: the years of the dataset, a few of its rows
AppCorpus ==
    Frame(CorpusCols,
          <<Speech(FirstYear, "Nehru", "INC", TextBad),
            Speech(1962, "Nehru", "INC", NaN),
            Speech(1995, "Gandhi", "INC", NaN),
            Speech(FirstYear + DatasetRows - 1, "Modi", "BJP", TextJoy)>>)

default_year_range ==
    LET ys == {corpus.rows[i].year : i \in 1..Len(corpus.rows)}
    IN  <<CHOOSE y \in ys : \A z \in ys : y <= z, CHOOSE y \in ys : \A z \in ys : y >= z>>

default_pms == {corpus.rows[i].pm : i \in 1..Len(corpus.rows)}

default_parties == {corpus.rows[i].party : i \in 1..Len(corpus.rows)}

FacetChoices == {"None", "Year", "Prime Minister", "Party"}

WordCaps == {default_max_words, 1}

\* the keys of the conditional widgets that a run with plot type pt shows
WidgetKeys(pt) ==
    (IF pt \in WordCapPlots THEN {"max_words"} ELSE {})
    \cup (IF pt \in FacetPlots THEN {"facet_select"} ELSE {})
    \cup (IF pt = "Specific Word Trend" THEN {"chosen_word"} ELSE {})

\* the keys of the widgets that every run shows
SidebarKeys == {"year_range", "selected_pms", "selected_parties"}

\* what the page shows after a run with the locals r
Shown(r) ==
    IF r.raised THEN "exception" ELSE IF r.calls = <<>> THEN "warning" ELSE "chart"

\* the session after a run on the widget values yr .. word that ended with
\* the locals r
Ran(r, yr, pms, parties, pt, words, facet, word, keys) ==
    /\ year_range' = yr
    /\ selected_pms' = pms
    /\ selected_parties' = parties
    /\ plot_type' = pt
    /\ max_words' = words
    /\ facet_select' = facet
    /\ chosen_word' = word
    /\ session_keys' = keys \cup WidgetKeys(pt)
    /\ corpus_filtered' = r.corpus_filtered
    /\ count_msg' = r.count_msg
    /\ corpus_tidy' = r.corpus_tidy
    /\ corpus_nonstop' = r.corpus_nonstop
    /\ corpus_tf_idf' = r.corpus_tf_idf
    /\ corpus_sentiment' = r.corpus_sentiment
    /\ corpus_net' = r.corpus_net
    /\ corpus_word' = r.corpus_word
    /\ calls' = r.calls
    /\ shown' = Shown(r)
    /\ corpus' = r.corpus
    /\ UNCHANGED <<total_speeches, corpus_refiltered>>

\* the widget values of a run: a conditional widget that is not shown
\* leaves its variable at the default
Script(yr, pms, parties, pt, words, facet, word, keys) ==
    Ran(MainContent(corpus, yr, pms, parties, pt, facet_map(facet), words, word),
        yr, pms, parties, pt, words, facet, word, keys)

\* the script runs on the widget values yr .. word; keys is session_keys
\* without the keys of the conditional widgets
Rerun(yr, pms, parties, pt, words, facet, word, keys) ==
    Script(yr, pms, parties, pt,
           IF pt \in WordCapPlots THEN words ELSE 12,
           IF pt \in FacetPlots THEN facet ELSE "None",
           IF pt = "Specific Word Trend" THEN word ELSE default_word,
           keys)

\* the locals of the first run
FirstRun(r) ==
    /\ corpus_filtered = r.corpus_filtered
    /\ count_msg = r.count_msg
    /\ corpus_tidy = r.corpus_tidy
    /\ corpus_nonstop = r.corpus_nonstop
    /\ corpus_tf_idf = r.corpus_tf_idf
    /\ corpus_sentiment = r.corpus_sentiment
    /\ corpus_net = r.corpus_net
    /\ corpus_word = r.corpus_word
    /\ calls = r.calls
    /\ shown = Shown(r)

\* the state after the first run of the script
Init ==
    /\ corpus = AppCorpus
    /\ total_speeches = DefaultTotal
    /\ year_range = default_year_range
    /\ selected_pms = default_pms
    /\ selected_parties = default_parties
    /\ plot_type = "Speech Length"
    /\ max_words = 12
    /\ facet_select = "None"
    /\ chosen_word = default_word
    /\ session_keys = SidebarKeys
    /\ corpus_refiltered = Unset
    /\ FirstRun(MainContent(AppCorpus, default_year_range, default_pms,
                            default_parties, "Speech Length", "none", 12, default_word))

\* the keys that outlive the next run unless it shows their widgets again:
\* the key of a conditional widget goes with its widget, a key that only
\* Reset wrote stays
Kept == session_keys \ WidgetKeys(plot_type)

\* the value a conditional widget takes when the run shows it
ShownWords == IF "max_words" \in session_keys THEN max_words ELSE default_max_words

ShownFacet == IF "facet_select" \in session_keys THEN facet_select ELSE "None"

ShownWord == IF "chosen_word" \in session_keys THEN chosen_word ELSE default_word

ResetAll ==
    Rerun(default_year_range, default_pms, default_parties, plot_type,
          default_max_words, ShownFacet, default_word,
          Kept \cup {"max_words", "facet_var", "chosen_word"})

SetYearRange(yr) ==
    Rerun(yr, selected_pms, selected_parties, plot_type, ShownWords, ShownFacet,
          ShownWord, Kept)

SetPms(pms) ==
    Rerun(year_range, pms, selected_parties, plot_type, ShownWords, ShownFacet,
          ShownWord, Kept)

PmAll == SetPms(default_pms)

PmNone == SetPms({})

SetParties(parties) ==
    Rerun(year_range, selected_pms, parties, plot_type, ShownWords, ShownFacet,
          ShownWord, Kept)

PartyAll == SetParties(default_parties)

PartyNone == SetParties({})

SelectPlotType(pt) ==
    /\ pt # plot_type
    /\ Rerun(year_range, selected_pms, selected_parties, pt, ShownWords, ShownFacet,
             ShownWord, Kept)

SetMaxWords(words) ==
    /\ plot_type \in WordCapPlots
    /\ Rerun(year_range, selected_pms, selected_parties, plot_type, words,
             ShownFacet, ShownWord, Kept)

SetFacet(facet) ==
    /\ plot_type \in FacetPlots
    /\ Rerun(year_range, selected_pms, selected_parties, plot_type, ShownWords,
             facet, ShownWord, Kept)

SetWord(word) ==
    /\ plot_type = "Specific Word Trend"
    /\ Rerun(year_range, selected_pms, selected_parties, plot_type, ShownWords,
             ShownFacet, word, Kept)

Next ==
    \/ ResetAll
    \/ \E yr \in YearRanges : SetYearRange(yr)
    \/ \E pms \in PmChoices : SetPms(pms)
    \/ PmAll
    \/ PmNone
    \/ \E parties \in PartyChoices : SetParties(parties)
    \/ PartyAll
    \/ PartyNone
    \/ \E pt \in PlotTypes : SelectPlotType(pt)
    \/ \E words \in WordCaps : SetMaxWords(words)
    \/ \E facet \in FacetChoices : SetFacet(facet)
    \/ \E word \in WordChoices : SetWord(word)

Spec == Init /\ [][Next]_vars

(***************************************************************************)
(* Properties of the functions of utils/, checked under SpecFn.            *)
(***************************************************************************)
\* the indices of the corpus rows the filter arguments select
Selected ==
    {i \in 1..Len(corpus.rows) :
        /\ year_range[1] <= corpus.rows[i].year
        /\ corpus.rows[i].year <= year_range[2]
        /\ corpus.rows[i].pm \in selected_pms
        /\ corpus.rows[i].party \in selected_parties}

SameSpeech(out, row) ==
    /\ out.year = row.year
    /\ out.pm = row.pm
    /\ out.party = row.party
    /\ out.text = row.text

\* C1: filter_corpus returns exactly the rows with lo <= year <= hi, pm in
\* L and party in P, in their input order, and raises nothing; with L or P
\* empty the result has zero rows.
C1_FilterExact ==
    corpus_filtered # Unset =>
        /\ IsOk(corpus_filtered)
        /\ Len(corpus_filtered.rows) = Cardinality(Selected)
        /\ \A i \in Selected :
              SameSpeech(corpus_filtered.rows[1 + Cardinality({j \in Selected : j < i})],
                         corpus.rows[i])
        /\ (selected_pms = {} \/ selected_parties = {}) => corpus_filtered.rows = <<>>

\* a filter that keeps the second of two speeches only
C1_Witness ==
    /\ IsOk(corpus_filtered)
    /\ Len(corpus.rows) = 2
    /\ Selected = {2}
    /\ selected_pms # {}
    /\ selected_parties # {}
    /\ corpus_filtered.rows[1].year = year_range[2]

\* the stages applied to the tokenizer's result, and their results
Downstream ==
    {corpus_nonstop, corpus_tf_idf, corpus_word, corpus_sentiment, corpus_net}

\* C2: when the tokenizer yields zero tokens, every stage applied
\* downstream accepts the zero-row result and returns zero rows without
\* raising.
C2_ZeroTokensTolerated ==
    (IsOk(corpus_tidy) /\ corpus_tidy.rows = <<>> /\ corpus.rows # <<>>) =>
        \A r \in Downstream : r # Unset => (IsOk(r) /\ r.rows = <<>>)

\* the (year, pm, party) groups of a sequence of rows
Groups(rows) == {Project(rows[i], GroupCols) : i \in 1..Len(rows)}

CountIn(rows, g, sentiment) ==
    Cardinality({i \in 1..Len(rows) :
        Project(rows[i], GroupCols) = g /\ rows[i].sentiment = sentiment})

\* C3: calculate_net_sentiment yields one row per (year, pm, party) group
\* of its input, with the group's positive and negative token counts (0
\* for a polarity the group or the whole input lacks) and their difference.
C3_NetSentimentPerGroup ==
    (corpus_net # Unset /\ corpus_sentiment.rows # <<>>) =>
        /\ IsOk(corpus_net)
        /\ Len(corpus_net.rows) = Cardinality(Groups(corpus_sentiment.rows))
        /\ \A g \in Groups(corpus_sentiment.rows) :
              \E i \in 1..Len(corpus_net.rows) :
                 /\ Project(corpus_net.rows[i], GroupCols) = g
                 /\ corpus_net.rows[i].positive
                      = CountIn(corpus_sentiment.rows, g, "positive")
                 /\ corpus_net.rows[i].negative
                      = CountIn(corpus_sentiment.rows, g, "negative")
                 /\ corpus_net.rows[i].sentiment
                      = corpus_net.rows[i].positive - corpus_net.rows[i].negative

\* the (year, pm, party) combinations of the tokenized corpus that are due
\* a row of the word trend
DueGroups ==
    {g \in Groups(corpus.rows) : g.year \notin MissingYears}

\* C4: count_specific_word returns exactly one row for every (year, pm,
\* party) combination of the tokenized corpus outside 1962 and 1995, with
\* n = 0 where the word does not occur.
C4_RowPerCombination ==
    (corpus_word # Unset /\ corpus_tidy.rows # <<>>) =>
        /\ IsOk(corpus_word)
        /\ Len(corpus_word.rows) = Cardinality(DueGroups)
        /\ \A g \in DueGroups :
              \E i \in 1..Len(corpus_word.rows) :
                 /\ Project(corpus_word.rows[i], GroupCols) = g
                 /\ corpus_word.rows[i].n =
                      Cardinality({k \in 1..Len(corpus_tidy.rows) :
                          /\ Project(corpus_tidy.rows[k], GroupCols) = g
                          /\ corpus_tidy.rows[k].word = Lower(chosen_word)})

\* the (year, pm, party, word) count rows of the tokens
CountKeys == {Project(corpus_tidy.rows[i], TidyCols) : i \in 1..Len(corpus_tidy.rows)}

\* C5: the result of calculate_tf_idf has exactly one row for every (year,
\* pm, party, word) count row of its input, every tf_idf is >= 0, and a
\* count row the vectorizer gives no score (a one-character word, which its
\* token pattern skips) has tf_idf = 0.
C5_TfIdfRows ==
    IsOk(corpus_tf_idf) =>
        /\ Len(corpus_tf_idf.rows) = Cardinality(CountKeys)
        /\ \A key \in CountKeys :
              \E i \in 1..Len(corpus_tf_idf.rows) :
                 /\ Project(corpus_tf_idf.rows[i], TidyCols) = key
                 /\ corpus_tf_idf.rows[i].n =
                      Cardinality({k \in 1..Len(corpus_tidy.rows) :
                          Project(corpus_tidy.rows[k], TidyCols) = key})
        /\ \A i \in 1..Len(corpus_tf_idf.rows) :
              /\ corpus_tf_idf.rows[i].tf_idf >= 0
              /\ Len(corpus_tf_idf.rows[i].word) < 2 => corpus_tf_idf.rows[i].tf_idf = 0

\* a result with a scored row and a row filled to 0
C5_Witness ==
    /\ IsOk(corpus_tf_idf)
    /\ \E i, j \in 1..Len(corpus_tf_idf.rows) :
          /\ corpus_tf_idf.rows[i].tf_idf > 0
          /\ corpus_tf_idf.rows[j].tf_idf = 0
          /\ corpus_tf_idf.rows[i].year = corpus_tf_idf.rows[j].year

\* C6: calculate_tf_idf does not raise when the tokens form a single
\* per-year document, whatever the tokens are.
C6_SingleDocumentNoRaise ==
    (/\ corpus_tf_idf # Unset
     /\ Cardinality({corpus_tidy.rows[i].year : i \in 1..Len(corpus_tidy.rows)}) = 1)
        => IsOk(corpus_tf_idf)

\* C9: get_current_n returns "{n} speeches included." when n equals the
\* total and "{n} of {total} speeches included." otherwise, n being the row
\* count of the frame.
C9_InclusionMessage ==
    count_msg # "" =>
        LET n == Len(corpus_filtered.rows)
        IN  /\ n = total_speeches => count_msg = ToString(n) \o " speeches included."
            /\ n # total_speeches =>
                  count_msg = ToString(n) \o " of " \o ToString(total_speeches)
                              \o " speeches included."

\* a frame with as many rows as the total
C9_Witness ==
    /\ count_msg # ""
    /\ Len(corpus_filtered.rows) = total_speeches
    /\ total_speeches > 0

\* the rows of a frame that are not of 1962 or 1995
DataRows(df) == {i \in 1..Len(df.rows) : df.rows[i].year \notin MissingYears}

\* C10: the count get_current_n reports excludes the rows of 1962 and
\* 1995; for the 79-row dataset with every leader, party and year selected
\* it reports 77 of a total of 77.
C10_CountExcludesMissingYears ==
    (/\ corpus = Dataset
     /\ count_msg # ""
     /\ total_speeches = DefaultTotal) =>
        /\ Cardinality(DataRows(corpus_filtered)) <= DefaultTotal
        /\ count_msg = get_current_n(
               Frame(FilteredCols, Ascending(DataRows(corpus_filtered))), DefaultTotal)
        /\ (/\ year_range = <<FirstYear, FirstYear + DatasetRows - 1>>
            /\ selected_pms = Pms
            /\ selected_parties = Parties) => count_msg = "77 speeches included."

(***************************************************************************)
(* Properties of the session of app.py, checked under Spec.                *)
(***************************************************************************)
\* C7: whenever the selected leaders or the selected parties are empty, the
\* run calls no stage of the pipeline (no filter_corpus, no tokenize_text,
\* no analysis, no plot function), every local of the pipeline stays
\* unassigned, and the page shows only the prompt to select a leader and a
\* party.
C7_NoDataShortCircuit ==
    (selected_pms = {} \/ selected_parties = {}) =>
        /\ calls = <<>>
        /\ shown = "warning"
        /\ count_msg = ""
        /\ \A df \in {corpus_filtered, corpus_tidy, corpus_nonstop, corpus_tf_idf,
                      corpus_sentiment, corpus_net, corpus_word} : df = Unset

\* a run with leaders selected and no party selected
C7_Witness ==
    /\ selected_pms # {}
    /\ selected_parties = {}
    /\ shown = "warning"
    /\ calls = <<>>

StageNames ==
    {"filter_corpus", "tokenize_text", "remove_stopwords", "calculate_tf_idf",
     "calculate_sentiment_words", "calculate_net_sentiment", "count_specific_word"}

\* the stages among the calls of a run, in the order they were made
StagesRun == SelectSeq(calls, LAMBDA name : name \in StageNames)

\* the path of a plot type, as the specification states it
StagePath(pt) ==
    <<"filter_corpus", "tokenize_text">> \o
    (CASE pt = "Speech Length" -> <<>>
       [] pt = "Most Frequent Words" -> <<"remove_stopwords">>
       [] pt = "Most Important Words" -> <<"calculate_tf_idf">>
       [] pt = "+/- Sentiment Words" -> <<"remove_stopwords", "calculate_sentiment_words">>
       [] pt = "Net Sentiment" ->
              <<"remove_stopwords", "calculate_sentiment_words", "calculate_net_sentiment">>
       [] pt = "Specific Word Trend" -> <<"count_specific_word">>)

IsPrefix(s, t) == Len(s) <= Len(t) /\ \A i \in 1..Len(s) : s[i] = t[i]

\* C8: the stages of a run are those of the fixed path of the selected plot
\* type, in the order of the path and starting with filter_corpus then
\* tokenize_text: a run that ends in a chart ran the whole path and nothing
\* else, a run that a stage ended by raising ran a prefix of it, and the
\* plot function called is the one of the plot type and comes last.
C8_FixedStagePath ==
    calls # <<>> =>
        /\ IsPrefix(StagesRun, StagePath(plot_type))
        /\ shown = "chart" => StagesRun = StagePath(plot_type)
        /\ \A i \in 1..Len(calls) :
               calls[i] \notin StageNames \cup {"get_current_n"} =>
                   /\ i = Len(calls)
                   /\ StagesRun = StagePath(plot_type)

\* a Net Sentiment run that went through its whole path to the chart
C8_Witness ==
    /\ plot_type = "Net Sentiment"
    /\ shown = "chart"
    /\ StagesRun = <<"filter_corpus", "tokenize_text", "remove_stopwords",
                     "calculate_sentiment_words", "calculate_net_sentiment">>
    /\ IsOk(corpus_net)

(***************************************************************************)
(* Further properties of the functions of utils/, checked under SpecFn.    *)
(***************************************************************************)
\* the maximal runs <<i, a, b>> of word characters in the texts of the
\* corpus: speech i has text, its characters a..b are letters, digits or
\* underscores, and the characters before a and after b are not
WordRuns ==
    {<<i, a, b>> \in UNION {{i} \X (1..Len(corpus.rows[i].text))
                                \X (1..Len(corpus.rows[i].text)) :
                            i \in {k \in 1..Len(corpus.rows) : corpus.rows[k].text # NaN}} :
        LET text == corpus.rows[i].text
        IN  /\ a <= b
            /\ \A k \in a..b : text[k] \in WordChars
            /\ (a = 1 \/ text[a - 1] \notin WordChars)
            /\ (b = Len(text) \/ text[b + 1] \notin WordChars)}

\* the place of the run p among runs, in the order of the speeches and of
\* the text
RunPlace(runs, p) ==
    1 + Cardinality({q \in runs : q[1] < p[1] \/ (q[1] = p[1] /\ q[2] < p[2])})

\* the rows of corpus_tidy are the runs, one row a run and in their order,
\* each with the year, pm and party of its speech and the run in lower case
RowPerRun(runs) ==
    /\ Len(corpus_tidy.rows) = Cardinality(runs)
    /\ \A p \in runs :
          LET row == corpus_tidy.rows[RunPlace(runs, p)]
              text == corpus.rows[p[1]].text
          IN  /\ row.year = corpus.rows[p[1]].year
              /\ row.pm = corpus.rows[p[1]].pm
              /\ row.party = corpus.rows[p[1]].party
              /\ Len(row.word) = p[3] - p[2] + 1
              /\ \A k \in 1..Len(row.word) :
                    \/ row.word[k] = text[p[2] + k - 1]
                    \/ \E n \in 1..Len(UpperCase) :
                          /\ text[p[2] + k - 1] = UpperCase[n]
                          /\ row.word[k] = LowerCase[n]

\* C11: tokenize_text emits one row per maximal run of letters, digits and
\* underscores of the text, in order, carrying the year, pm and party of
\* its speech and the run in lower case; no word holds an uppercase,
\* punctuation or whitespace character; a speech with null text emits
\* nothing and nothing is raised.
C11_TokenPerWordRun ==
    corpus_tidy # Unset =>
        /\ IsOk(corpus_tidy)
        /\ RowPerRun(WordRuns)
        /\ \A i \in 1..Len(corpus_tidy.rows) :
              \A k \in 1..Len(corpus_tidy.rows[i].word) :
                 corpus_tidy.rows[i].word[k] \in Range(LowerCase \o Digits \o <<"_">>)

\* "Hello, world!" tokenized to hello, world
C11_Witness ==
    /\ Len(corpus.rows) = 1
    /\ corpus.rows[1].text = TextHello
    /\ IsOk(corpus_tidy)
    /\ [i \in 1..Len(corpus_tidy.rows) |-> corpus_tidy.rows[i].word]
         = <<Lower(SubSeq(TextHello, 1, 5)), SubSeq(TextHello, 8, 12)>>

\* the tokens whose word is in a lexicon, by their place in corpus_nonstop
InLexicon ==
    {i \in 1..Len(corpus_nonstop.rows) :
        corpus_nonstop.rows[i].word \in positive_words \cup negative_words}

\* C12: calculate_sentiment_words keeps exactly the tokens whose word is in
\* the positive or the negative lexicon, in their order and with their
\* columns, and labels a token positive when its word is in the positive
\* lexicon (also when it is in both) and negative otherwise.
C12_SentimentLabels ==
    corpus_sentiment # Unset =>
        /\ IsOk(corpus_sentiment)
        /\ Len(corpus_sentiment.rows) = Cardinality(InLexicon)
        /\ \A i \in InLexicon :
              LET out == corpus_sentiment.rows[1 + Cardinality({j \in InLexicon : j < i})]
                  token == corpus_nonstop.rows[i]
              IN  /\ \A c \in Range(TidyCols) : out[c] = token[c]
                  /\ token.word \in positive_words => out.sentiment = "positive"
                  /\ token.word \notin positive_words => out.sentiment = "negative"

\* a word of both lexicons labeled positive, a negative word kept and a
\* word of neither lexicon dropped
C12_Witness ==
    /\ IsOk(corpus_sentiment)
    /\ Len(corpus_sentiment.rows) < Len(corpus_nonstop.rows)
    /\ \E i, j \in 1..Len(corpus_sentiment.rows) :
          /\ corpus_sentiment.rows[i].word \in positive_words \cap negative_words
          /\ corpus_sentiment.rows[i].sentiment = "positive"
          /\ corpus_sentiment.rows[j].sentiment = "negative"

\* the tokens that are no stopwords, by their place in corpus_tidy
NonStopTokens ==
    {i \in 1..Len(corpus_tidy.rows) : corpus_tidy.rows[i].word \notin stop_words}

\* C13: for a token table T (a frame with the columns year, pm, party,
\* word), remove_stopwords(T) is a sub-sequence of T's rows with their
\* columns unchanged, holds every row of T whose word is no stopword, and
\* holds no row whose word is a stopword.
C13_StopwordsRemoved ==
    (corpus_nonstop # Unset /\ corpus_tidy.cols = TidyCols) =>
        /\ IsOk(corpus_nonstop)
        /\ corpus_nonstop.cols = corpus_tidy.cols
        /\ Len(corpus_nonstop.rows) = Cardinality(NonStopTokens)
        /\ \A i \in NonStopTokens :
              corpus_nonstop.rows[1 + Cardinality({j \in NonStopTokens : j < i})]
                 = corpus_tidy.rows[i]
        /\ \A k \in 1..Len(corpus_nonstop.rows) :
              corpus_nonstop.rows[k].word \notin stop_words

\* a stopword dropped between two words that are kept
C13_Witness ==
    /\ IsOk(corpus_nonstop)
    /\ \E i \in 2..(Len(corpus_tidy.rows) - 1) :
          /\ corpus_tidy.rows[i].word \in stop_words
          /\ corpus_tidy.rows[i - 1].word \notin stop_words
          /\ corpus_tidy.rows[i + 1].word \notin stop_words
    /\ Len(corpus_nonstop.rows) >= 2

\* the token equals the target word up to the letter case of the target
IsTarget(token, target) ==
    /\ Len(token) = Len(target)
    /\ \A k \in 1..Len(token) :
          \/ token[k] = target[k]
          \/ \E n \in 1..Len(UpperCase) :
                target[k] = UpperCase[n] /\ token[k] = LowerCase[n]

\* C14: the count count_specific_word gives a (year, pm, party) group is
\* the number of the group's tokens equal to the target word in lower
\* case, whatever the letter case of the target; a token that only
\* contains the target is not counted.
C14_ExactCaseInsensitiveCount ==
    IsOk(corpus_word) =>
        \A i \in 1..Len(corpus_word.rows) :
           corpus_word.rows[i].n =
              Cardinality({k \in 1..Len(corpus_tidy.rows) :
                  /\ Project(corpus_tidy.rows[k], GroupCols)
                       = Project(corpus_word.rows[i], GroupCols)
                  /\ IsTarget(corpus_tidy.rows[k].word, chosen_word)})

\* a target typed with a capital letter counted twice in a speech
C14_Witness ==
    /\ IsOk(corpus_word)
    /\ \E k \in 1..Len(chosen_word) : chosen_word[k] \in Range(UpperCase)
    /\ \E i \in 1..Len(corpus_word.rows) : corpus_word.rows[i].n = 2

\* a target that a token contains without being equal to it, counted 0
C14_WitnessContained ==
    /\ IsOk(corpus_word)
    /\ \E k \in 1..Len(corpus_tidy.rows) :
          /\ Len(corpus_tidy.rows[k].word) > Len(chosen_word)
          /\ SubSeq(corpus_tidy.rows[k].word, 1, Len(chosen_word)) = chosen_word
    /\ \A i \in 1..Len(corpus_word.rows) : corpus_word.rows[i].n = 0
    /\ corpus_word.rows # <<>>

\* C15: filter_corpus is idempotent: applied to its own result with the
\* same year range, leaders and parties it returns that result again,
\* columns and rows.
C15_FilterIdempotent ==
    corpus_refiltered # Unset => corpus_refiltered = corpus_filtered

\* a filter that dropped one of two speeches, applied twice
C15_Witness ==
    /\ IsOk(corpus_refiltered)
    /\ Len(corpus.rows) = 2
    /\ Len(corpus_refiltered.rows) = 1

\* C16: the result of filter_corpus has exactly the columns year, pm,
\* party, text, in that order, for every corpus and every filter, also
\* when it has no rows.
C16_FilteredColumns ==
    corpus_filtered # Unset =>
        /\ IsOk(corpus_filtered)
        /\ corpus_filtered.cols = <<"year", "pm", "party", "text">>
        /\ \A i \in 1..Len(corpus_filtered.rows) :
              DOMAIN corpus_filtered.rows[i] = {"year", "pm", "party", "text"}

\* a filter that leaves no row of a corpus of two speeches
C16_Witness ==
    /\ IsOk(corpus_filtered)
    /\ Len(corpus.rows) = 2
    /\ corpus_filtered.rows = <<>>
    /\ Len(corpus_filtered.cols) = 4

\* C18: the rows count_specific_word returns are sorted ascending by
\* year: the year does not decrease from the first row to the last.
C18_WordTrendSortedByYear ==
    IsOk(corpus_word) =>
        \A i, j \in 1..Len(corpus_word.rows) :
           i < j => corpus_word.rows[i].year <= corpus_word.rows[j].year

\* the counts of a corpus that lists its newest speech first
C18_Witness ==
    /\ IsOk(corpus_word)
    /\ Len(corpus.rows) = 2
    /\ corpus.rows[1].year > corpus.rows[2].year
    /\ Len(corpus_word.rows) = 2
    /\ corpus_word.rows[1].year = corpus.rows[2].year

(***************************************************************************)
(* Further properties of the session of app.py, checked under Spec.        *)
(***************************************************************************)
\* C17: across any sequence of filter edits and plot-type switches the
\* corpus is as it was loaded, rows, columns and values: filter_corpus and
\* the stages run after it leave it alone.
C17_CorpusAsLoaded == corpus = AppCorpus

\* after a filter edit and a switch of the plot type, a run whose plot
\* function added a column to the frame it was given
C17_Witness ==
    /\ selected_parties # default_parties
    /\ plot_type = "Net Sentiment"
    /\ shown = "chart"
    /\ Len(corpus_filtered.rows) < Len(corpus.rows)
    /\ "hover_text" \in Range(corpus_net.cols)

\* C19: after "Reset All Inputs" is pressed in any state of the session,
\* every input it covers holds its default in the run that follows: the
\* year range is the (min, max) of the corpus, all leaders and all parties
\* are selected, the word cap is 12, the facet variable is none and the
\* target word is 'freedom'.
C19_ResetRestoresDefaults ==
    [][ResetAll =>
          /\ year_range' = default_year_range
          /\ selected_pms' = default_pms
          /\ selected_parties' = default_parties
          /\ max_words' = default_max_words
          /\ facet_map(facet_select') = "none"
          /\ chosen_word' = default_word]_vars

\* a session in which the facet variable was set and is shown
C19_FacetChosen ==
    /\ plot_type \in FacetPlots
    /\ facet_select # "None"
    /\ "facet_var" \in session_keys

====
